---- MODULE Spec2Model ----
(***************************************************************************)
(* Workflow dashboard: the D1 mirror of workflow / step state, the SSE     *)
(* registry and the MyWorkflow.run driver (six-step template).             *)
(*                                                                         *)
(* Encoding of SQL / JS values:                                            *)
(*   - an INTEGER column that is NULL holds NULL (-1); real clock values   *)
(*     are >= 1, durations are >= 0;                                       *)
(*   - a TEXT column that is NULL holds NullText;                          *)
(*   - a JS value is a record [t, tag, n]; the output column holds the     *)
(*     JSON text of a value, or NullCol.                                   *)
(***************************************************************************)
EXTENDS Integers, Sequences, FiniteSets, TLC

(* ---------------- bounds ---------------- *)
\* Date.now() ranges over 1..MaxTime
MaxTime == 3
\* number of storage (D1) calls that may throw in one behaviour
MaxFaults == 1

(* ---------------- program constants ---------------- *)
NumSteps == 6
maxRetries == 5
GateStep == 2
LastStep == 5

NULL == -1
NullText == "<null>"

\* ids the external runner's create() hands out
AllIds == {"w1", "w2"}
\* ids created through POST /api/workflow in the main specification
InstanceIds == {"w1"}

StepNames == <<"Fetch Document", "AI Analysis", "Wait for Approval",
               "Fetch API Data", "Sleep", "Persist Results">>

Controllers == {"c1", "c2"}

(* ---------------- JS values and their JSON text ---------------- *)
JsUndefined == [t |-> "undefined", tag |-> "", n |-> 0]
JsNull == [t |-> "null", tag |-> "", n |-> 0]
Obj(tag, n) == [t |-> "object", tag |-> tag, n |-> n]

\* JS truthiness of a value (objects are truthy; 0, "", false, null, undefined are not)
Truthy(v) ==
    \/ v.t = "object"
    \/ v.t = "number" /\ v.n # 0
    \/ v.t = "string" /\ v.tag # ""
    \/ v.t = "boolean" /\ v.n = 1

\* JSON values an API response can be
ObjectResponses == {Obj("ips", 0)}
JsonValues ==
    {Obj("ips", 0), JsNull,
     [t |-> "number", tag |-> "", n |-> 0], [t |-> "number", tag |-> "", n |-> 7],
     [t |-> "boolean", tag |-> "", n |-> 0], [t |-> "boolean", tag |-> "", n |-> 1],
     [t |-> "string", tag |-> "", n |-> 0], [t |-> "string", tag |-> "ok", n |-> 0]}

NullCol == [t |-> "NULL", kind |-> "", tag |-> "", n |-> 0]
JSONStringify(v) == [t |-> "text", kind |-> v.t, tag |-> v.tag, n |-> v.n]
JSONParse(c) == [t |-> c.kind, tag |-> c.tag, n |-> c.n]

VARIABLES
    now,                \* Date.now()
    workflow_instances, \* table: id -> [status, start_time, end_time]
    workflow_steps,     \* table: sequence of rows in rowid order
    sseClients,         \* Map instanceId -> Set of controllers
    queues,             \* controller -> sequence of enqueued messages
    closed,             \* controllers whose enqueue throws
    created,            \* ids handed out by env.MY_WORKFLOW.create()
    req,                \* id -> position of the POST /api/workflow handler
    pc,                 \* id -> position of MyWorkflow.run
    cur,                \* id -> index of the step run is working on
    retryCount,         \* id -> run's retryCount
    caught,             \* id -> message of the last exception raised in run()
    lastUpdates,        \* id -> updates argument of the last updateStep call
    approval,           \* id -> an approval event was sent and not consumed
    faults,             \* storage calls that may still throw
    apiResponse,        \* id -> run's apiResponse (result of the step 3 unit of work)
    sub,                \* controller -> the /api/stream request that owns it
    published,          \* id -> messages broadcastUpdate built, in call order
    retry               \* id -> outcome of POST /api/workflow/:id/retry

storeVars == <<workflow_instances, workflow_steps>>
regVars == <<sseClients, queues, published, closed, sub>>
reqVars == <<created, req, retry>>
drvVars == <<pc, cur, retryCount, caught, lastUpdates, apiResponse>>
vars == <<now, workflow_instances, workflow_steps, sseClients, queues, closed,
          created, req, pc, cur, retryCount, caught, lastUpdates, approval, faults,
          apiResponse, sub, published, retry>>

(* ---------------- State Reader ---------------- *)
\* position of row j of s in the result of ORDER BY step_index
\* (rows with equal step_index keep their rowid order)
RankByStepIndex(s, j) ==
    1 + Cardinality({m \in 1..Len(s) :
            \/ s[m].step_index < s[j].step_index
            \/ s[m].step_index = s[j].step_index /\ m < j})

\* ORDER BY step_index
OrderByStepIndex(s) ==
    [k \in 1..Len(s) |-> s[CHOOSE j \in 1..Len(s) : RankByStepIndex(s, j) = k]]

StepView(s) ==
    [name |-> s.name,
     status |-> s.status,
     output |-> IF s.output # NullCol THEN JSONParse(s.output) ELSE JsUndefined,
     error |-> s.error,
     timestamp |-> s.timestamp,
     duration |-> s.duration]

\* what getWorkflowInstance returns when the instance row is absent
NullView == [id |-> "", status |-> "null", startTime |-> NULL, endTime |-> NULL,
             steps |-> << >>]

\* getWorkflowInstance evaluated on tables wi, ws
ReadInstance(wi, ws, id) ==
    IF id \notin DOMAIN wi THEN NullView
    ELSE LET rows == OrderByStepIndex(SelectSeq(ws, LAMBDA r : r.workflow_id = id))
         IN [id |-> id,
             status |-> wi[id].status,
             startTime |-> wi[id].start_time,
             endTime |-> wi[id].end_time,
             steps |-> [k \in 1..Len(rows) |-> StepView(rows[k])]]

getWorkflowInstance(id) == ReadInstance(workflow_instances, workflow_steps, id)

\* the orders in which the database may return rows that ORDER BY leaves tied
TieOrders ==
    {t \in [AllIds -> 1..Cardinality(AllIds)] :
        \A x, y \in AllIds : x # y => t[x] # t[y]}

\* position of the row of id under ORDER BY start_time, oldest first
RankByStartTimeAsc(wi, id, tie) ==
    1 + Cardinality({x \in DOMAIN wi :
            \/ wi[x].start_time < wi[id].start_time
            \/ wi[x].start_time = wi[id].start_time /\ tie[x] < tie[id]})

\* position of the row of id under ORDER BY start_time DESC
RankByStartTime(wi, id, tie) ==
    1 + Cardinality({x \in DOMAIN wi :
            \/ wi[x].start_time > wi[id].start_time
            \/ wi[x].start_time = wi[id].start_time /\ tie[x] < tie[id]})

\* getAllWorkflowInstances(): one view per row of workflow_instances, in the
\* order of the SELECT
getAllWorkflowInstances(tie) ==
    [k \in 1..Cardinality(DOMAIN workflow_instances) |->
        ReadInstance(workflow_instances, workflow_steps,
            CHOOSE id \in DOMAIN workflow_instances :
                RankByStartTime(workflow_instances, id, tie) = k)]

\* instance && instance.steps[stepIndex]
HasStep(view, stepIndex) == view # NullView /\ stepIndex + 1 <= Len(view.steps)

(* ---------------- Broadcast Dispatcher ---------------- *)
Event(type, instance, error, stepIndex, attempt) ==
    [type |-> type, instance |-> instance, error |-> error,
     stepIndex |-> stepIndex, attempt |-> attempt]

\* broadcastUpdate whose loop has no try/catch: the first enqueue that throws
\* ends the loop
broadcastUnguarded(q, instanceId, data) ==
    IF instanceId \notin DOMAIN sseClients THEN q
    ELSE IF sseClients[instanceId] \cap closed # {} THEN q
    ELSE [c \in DOMAIN q |->
            IF c \in sseClients[instanceId] THEN Append(q[c], data) ELSE q[c]]

\* broadcastUpdate whose loop puts the message at the head of the queue
broadcastAtHead(q, instanceId, data) ==
    IF instanceId \notin DOMAIN sseClients THEN q
    ELSE [c \in DOMAIN q |->
            IF c \in sseClients[instanceId] /\ c \notin closed
            THEN <<data>> \o q[c] ELSE q[c]]

\* queues after broadcastUpdate(instanceId, data): every controller registered
\* for instanceId gets data enqueued; an enqueue that throws is swallowed
broadcastUpdate(q, instanceId, data) ==
    IF instanceId \notin DOMAIN sseClients THEN q
    ELSE [c \in DOMAIN q |->
            IF c \in sseClients[instanceId] /\ c \notin closed
            THEN Append(q[c], data) ELSE q[c]]

\* the messages built after broadcastUpdate(instanceId, data): a message is
\* built when the registry has an entry for instanceId
Published(p, instanceId, data) ==
    IF instanceId \in DOMAIN sseClients
    THEN [p EXCEPT ![instanceId] = Append(@, data)]
    ELSE p

(* ---------------- State Store ---------------- *)
\* the updates argument of updateStep: keys lists the properties it carries
Updates(keys, status, timestamp, output, error, duration) ==
    [keys |-> keys, status |-> status, timestamp |-> timestamp,
     output |-> output, error |-> error, duration |-> duration]

NoUpdates == Updates({}, "", NULL, JsUndefined, NullText, NULL)

\* { ...instance.steps[stepIndex], ...updates }
Merge(s, u) ==
    [name |-> s.name,
     status |-> IF "status" \in u.keys THEN u.status ELSE s.status,
     output |-> IF "output" \in u.keys THEN u.output ELSE s.output,
     error |-> IF "error" \in u.keys THEN u.error ELSE s.error,
     timestamp |-> IF "timestamp" \in u.keys THEN u.timestamp ELSE s.timestamp,
     duration |-> IF "duration" \in u.keys THEN u.duration ELSE s.duration]

\* the values bound to UPDATE workflow_steps SET status, output, error, duration
BoundStepRow(r, m) ==
    [r EXCEPT !.status = m.status,
              !.output = IF Truthy(m.output) THEN JSONStringify(m.output) ELSE NullCol,
              !.error = IF m.error \in {NullText, ""} THEN NullText ELSE m.error,
              !.duration = IF m.duration \in {NULL, 0} THEN NULL ELSE m.duration]

\* the same UPDATE with its WHERE clause reduced to workflow_id = ?
MatchesWorkflowOnly(r, instanceId, stepIndex) == r.workflow_id = instanceId

\* WHERE workflow_id = ? AND step_index = ?
MatchesStep(r, instanceId, stepIndex) ==
    r.workflow_id = instanceId /\ r.step_index = stepIndex

\* updateStep as a function that persists the merged row and publishes nothing
updateStepSilently(instanceId, stepIndex, updates) ==
    LET instance == getWorkflowInstance(instanceId) IN
    IF HasStep(instance, stepIndex)
    THEN LET m == Merge(instance.steps[stepIndex + 1], updates)
         IN /\ workflow_steps' =
                 [k \in 1..Len(workflow_steps) |->
                    IF MatchesStep(workflow_steps[k], instanceId, stepIndex)
                    THEN BoundStepRow(workflow_steps[k], m)
                    ELSE workflow_steps[k]]
            /\ UNCHANGED <<queues, published>>
    ELSE UNCHANGED <<workflow_steps, queues, published>>

\* updateStep(instanceId, stepIndex, updates): new steps table and new queues
updateStep(instanceId, stepIndex, updates) ==
    LET instance == getWorkflowInstance(instanceId) IN
    IF HasStep(instance, stepIndex)
    THEN LET m == Merge(instance.steps[stepIndex + 1], updates)
             merged == [instance EXCEPT !.steps[stepIndex + 1] = m]
         IN /\ workflow_steps' =
                 [k \in 1..Len(workflow_steps) |->
                    IF MatchesStep(workflow_steps[k], instanceId, stepIndex)
                    THEN BoundStepRow(workflow_steps[k], m)
                    ELSE workflow_steps[k]]
            /\ queues' = broadcastUpdate(queues, instanceId,
                             Event("stepUpdate", merged, NullText, NULL, NULL))
            /\ published' = Published(published, instanceId,
                                Event("stepUpdate", merged, NullText, NULL, NULL))
    ELSE UNCHANGED <<workflow_steps, queues, published>>

\* UPDATE workflow_instances SET status = ?, end_time = ? WHERE id = ?
StatusWritten(instanceId, status, endTime) ==
    IF instanceId \in DOMAIN workflow_instances
    THEN [workflow_instances EXCEPT
            ![instanceId].status = status,
            ![instanceId].end_time = IF endTime \in {NULL, 0} THEN NULL ELSE endTime]
    ELSE workflow_instances

\* updateWorkflowStatus(instanceId, status, env, endTime)
updateWorkflowStatus(instanceId, status, endTime) ==
    LET wi == StatusWritten(instanceId, status, endTime)
        instance == ReadInstance(wi, workflow_steps, instanceId)
    IN /\ workflow_instances' = wi
       /\ queues' = IF instance # NullView
                    THEN broadcastUpdate(queues, instanceId,
                             Event("statusUpdate", instance, NullText, NULL, NULL))
                    ELSE queues
       /\ published' = IF instance # NullView
                       THEN Published(published, instanceId,
                                Event("statusUpdate", instance, NullText, NULL, NULL))
                       ELSE published

(* ---------------- construction ---------------- *)
IdleReq == [at |-> "idle", i |-> 0]

\* no retry was requested
NoRetry == [at |-> "idle", new |-> ""]

\* a controller no /api/stream request has created yet
NoStream == [at |-> "none", id |-> ""]

InitState ==
    /\ now = 1
    /\ workflow_instances = << >>
    /\ workflow_steps = << >>
    /\ sseClients = << >>
    /\ queues = [c \in Controllers |-> << >>]
    /\ published = [id \in AllIds |-> << >>]
    /\ retry = [id \in AllIds |-> NoRetry]
    /\ closed = {}
    /\ created = {}
    /\ req = [id \in AllIds |-> IdleReq]
    /\ pc = [id \in AllIds |-> "idle"]
    /\ cur = [id \in AllIds |-> 0]
    /\ retryCount = [id \in AllIds |-> 0]
    /\ caught = [id \in AllIds |-> NullText]
    /\ lastUpdates = [id \in AllIds |-> NoUpdates]
    /\ approval = [id \in AllIds |-> FALSE]
    /\ apiResponse = [id \in AllIds |-> JsUndefined]
    /\ sub = [c \in Controllers |-> NoStream]

\* storage calls may throw
Init == InitState /\ faults = MaxFaults

\* storage calls succeed
InitNoFaults == InitState /\ faults = 0

\* the clock behind Date.now() advances
Tick ==
    /\ now < MaxTime
    /\ now' = now + 1
    /\ UNCHANGED <<storeVars, regVars, reqVars, drvVars, approval, faults>>

(* ---------------- POST /api/workflow ---------------- *)
\* env.MY_WORKFLOW.create(): the runner hands out the id and schedules run()
PostCreate(id) ==
    /\ id \in InstanceIds \ created
    /\ req[id].at = "idle"
    /\ created' = created \cup {id}
    /\ req' = [req EXCEPT ![id] = [at |-> "insert_instance", i |-> 0]]
    /\ pc' = [pc EXCEPT ![id] = "status_running"]
    /\ UNCHANGED <<now, apiResponse, storeVars, regVars, retry, cur, retryCount, caught,
                   lastUpdates, approval, faults>>

InsertInstanceRow(wi, id) ==
    [x \in DOMAIN wi \cup {id} |->
        IF x = id THEN [status |-> "queued", start_time |-> now, end_time |-> NULL]
        ELSE wi[x]]

\* the INSERT as it would run without the primary key on id
PostInsertInstanceNoKey(id) ==
    /\ req[id].at = "insert_instance"
    /\ workflow_instances' = InsertInstanceRow(workflow_instances, id)
    /\ req' = [req EXCEPT ![id] = [at |-> "insert_steps", i |-> 0]]
    /\ UNCHANGED <<now, workflow_steps, regVars, created, retry, drvVars, approval, faults>>

\* INSERT INTO workflow_instances (id, status, start_time); id is the primary key
PostInsertInstance(id) ==
    /\ req[id].at = "insert_instance"
    /\ IF id \in DOMAIN workflow_instances
       THEN /\ req' = [req EXCEPT ![id].at = "error"]
            /\ UNCHANGED workflow_instances
       ELSE /\ workflow_instances' = InsertInstanceRow(workflow_instances, id)
            /\ req' = [req EXCEPT ![id] = [at |-> "insert_steps", i |-> 0]]
    /\ UNCHANGED <<now, workflow_steps, regVars, created, retry, drvVars, approval, faults>>

\* the step row with the 1-based position bound to step_index
NewStepRowOneBased(id, i) ==
    [workflow_id |-> id, step_index |-> i + 1, name |-> StepNames[i + 1],
     status |-> "pending", output |-> NullCol, error |-> NullText,
     timestamp |-> now, duration |-> NULL]

NewStepRow(id, i) ==
    [workflow_id |-> id, step_index |-> i, name |-> StepNames[i + 1],
     status |-> "pending", output |-> NullCol, error |-> NullText,
     timestamp |-> now, duration |-> NULL]

\* one iteration of the loop over the step template
PostInsertStep(id) ==
    /\ req[id].at = "insert_steps"
    /\ req[id].i < NumSteps
    /\ workflow_steps' = Append(workflow_steps, NewStepRow(id, req[id].i))
    /\ req' = [req EXCEPT ![id].i = req[id].i + 1]
    /\ UNCHANGED <<now, workflow_instances, regVars, created, retry, drvVars, approval, faults>>

\* getWorkflowInstance(instance.id) and Response.json
PostRespond(id) ==
    /\ req[id].at = "insert_steps"
    /\ req[id].i = NumSteps
    /\ req' = [req EXCEPT ![id].at = "done"]
    /\ UNCHANGED <<now, storeVars, regVars, created, retry, drvVars, approval, faults>>

(* ---------------- POST /api/workflow/:id/retry ---------------- *)
\* the handler with newInstance.id taken to be the id of the request
PostRetrySameId(id) ==
    /\ retry[id].at = "idle"
    /\ req[id].at \in {"idle", "done"}
    /\ IF getWorkflowInstance(id) = NullView
       THEN /\ retry' = [retry EXCEPT ![id].at = "404"]
            /\ UNCHANGED <<created, req, pc>>
       ELSE /\ retry' = [retry EXCEPT ![id] = [at |-> "created", new |-> id]]
            /\ created' = created \cup {id}
            /\ req' = [req EXCEPT ![id] = [at |-> "insert_instance", i |-> 0]]
            /\ pc' = [pc EXCEPT ![id] = "status_running"]
    /\ UNCHANGED <<now, apiResponse, storeVars, regVars, cur, retryCount, caught,
                   lastUpdates, approval, faults>>

\* getWorkflowInstance(id): 404 when there is none; else
\* env.MY_WORKFLOW.create() hands out a new id and starts its run(); the
\* inserts that follow are the statements of POST /api/workflow, run for the
\* new id
PostRetry(id) ==
    /\ retry[id].at = "idle"
    /\ IF getWorkflowInstance(id) = NullView
       THEN /\ retry' = [retry EXCEPT ![id].at = "404"]
            /\ UNCHANGED <<created, req, pc>>
       ELSE \E new \in AllIds \ created :
               /\ req[new].at = "idle"
               /\ retry' = [retry EXCEPT ![id] = [at |-> "created", new |-> new]]
               /\ created' = created \cup {new}
               /\ req' = [req EXCEPT ![new] = [at |-> "insert_instance", i |-> 0]]
               /\ pc' = [pc EXCEPT ![new] = "status_running"]
    /\ UNCHANGED <<now, apiResponse, storeVars, regVars, cur, retryCount, caught,
                   lastUpdates, approval, faults>>

(* ---------------- GET /api/stream ---------------- *)
\* the viewers that open a stream
Viewers == {"c1"}

\* a start() that sets a new set for instanceId whether or not one exists
StreamStartOverwriting(c, instanceId) ==
    /\ sub[c].at = "none"
    /\ sseClients' =
          [x \in DOMAIN sseClients \cup {instanceId} |->
              IF x = instanceId THEN {c} ELSE sseClients[x]]
    /\ sub' = [sub EXCEPT ![c] = [at |-> "reading", id |-> instanceId]]
    /\ UNCHANGED <<now, storeVars, queues, published, closed, reqVars, drvVars, approval, faults>>

\* start(controller): the controller joins the set kept for instanceId; the
\* read of the initial state is started and not awaited
StreamStart(c, instanceId) ==
    /\ sub[c].at = "none"
    /\ sseClients' =
          [x \in DOMAIN sseClients \cup {instanceId} |->
              IF x = instanceId
              THEN (IF x \in DOMAIN sseClients THEN sseClients[x] ELSE {}) \cup {c}
              ELSE sseClients[x]]
    /\ sub' = [sub EXCEPT ![c] = [at |-> "reading", id |-> instanceId]]
    /\ UNCHANGED <<now, storeVars, queues, published, closed, reqVars, drvVars, approval, faults>>

\* getWorkflowInstance(instanceId).then(instance => { if (instance) enqueue }):
\* an enqueue on a cancelled stream throws inside the callback and nothing
\* is delivered
StreamInitial(c) ==
    /\ sub[c].at = "reading"
    /\ LET instance == getWorkflowInstance(sub[c].id) IN
       queues' = IF instance # NullView /\ c \notin closed
                 THEN [queues EXCEPT ![c] =
                          Append(@, Event("initial", instance, NullText, NULL, NULL))]
                 ELSE queues
    /\ sub' = [sub EXCEPT ![c].at = "open"]
    /\ UNCHANGED <<now, storeVars, sseClients, published, closed, reqVars, drvVars, approval, faults>>

\* what the stream passes to cancel(): the reason of the cancellation, which
\* is no controller
CancelReason == "reason"

\* a cancel callback that empties the set of the instance
cancelClearing(m, instanceId, x) ==
    IF instanceId \in DOMAIN m
    THEN [m EXCEPT ![instanceId] = {}]
    ELSE m

\* the registry after the cancel callback of a stream for instanceId ran with
\* argument x: const clients = sseClients.get(instanceId);
\* if (clients) clients.delete(x)
cancel(m, instanceId, x) ==
    IF instanceId \in DOMAIN m
    THEN [m EXCEPT ![instanceId] = @ \ {x}]
    ELSE m

\* the viewer disconnects: the stream is cancelled, enqueue throws from now
\* on, and cancel(reason) deletes its argument from the set of the instance
StreamCancel(c) ==
    /\ sub[c].at \in {"reading", "open"}
    /\ c \notin closed
    /\ closed' = closed \cup {c}
    /\ sseClients' = cancel(sseClients, sub[c].id, CancelReason)
    /\ UNCHANGED <<now, storeVars, queues, published, sub, reqVars, drvVars, approval, faults>>

\* the arguments the cancel callback is run with
CancelArgs == Controllers \cup {CancelReason}

\* the cancel callback of a stream for instanceId is run with argument x, as a
\* caller that holds a controller would run it
CancelPath(instanceId, x) ==
    /\ sseClients' = cancel(sseClients, instanceId, x)
    /\ UNCHANGED <<now, storeVars, queues, published, closed, sub, reqVars, drvVars,
                   approval, faults>>

(* ---------------- POST /api/workflow/:id/continue ---------------- *)
\* env.MY_WORKFLOW.get(id).sendEvent({type: 'approval'}): the runner keeps the
\* event until the approval wait takes it; for an id the runner does not know,
\* or whose run() has ended, the call throws and the handler answers 500
\* without a change of state
PostContinue(id) ==
    /\ id \in created
    /\ ~approval[id]
    /\ pc[id] \notin {"done", "rethrown", "escaped"}
    /\ approval' = [approval EXCEPT ![id] = TRUE]
    /\ UNCHANGED <<now, storeVars, regVars, reqVars, drvVars, faults>>

(* ---------------- MyWorkflow.run ---------------- *)
\* the position is inside the try block of the last step
InTry(id) ==
    cur[id] = LastStep /\ pc[id] \in {"work", "end", "final_status", "final_bcast"}

\* an exception with message msg is raised at the current position: the catch
\* block takes it when the position is inside the try, else it leaves run()
Throw(id, msg) ==
    IF InTry(id)
    THEN /\ pc' = [pc EXCEPT ![id] = "catch_step"]
         /\ caught' = [caught EXCEPT ![id] = msg]
    ELSE /\ pc' = [pc EXCEPT ![id] = "escaped"]
         /\ caught' = [caught EXCEPT ![id] = msg]

\* the status and endTime arguments of the updateWorkflowStatus call at position p
StatusArg(p) ==
    CASE p = "status_running" -> "running"
      [] p = "gate_status" -> "waiting"
      [] p = "gate_resume" -> "running"
      [] p = "final_status" -> "completed"
      [] p = "catch_status" -> "failed"

EndTimeArg(p) == IF p \in {"final_status", "catch_status"} THEN now ELSE NULL

\* the output the driver writes for step i
StepOutput(id, i) ==
    CASE i = 0 -> Obj("document", 0)
      [] i = 1 -> Obj("analysis", 0)
      [] i = 2 -> Obj("approved", now)
      [] i = 3 -> apiResponse[id]
      [] i = 4 -> Obj("slept", 0)
      [] i = 5 -> Obj("persisted", retryCount[id])

\* await updateWorkflowStatus(instanceId, 'running', env)
RunStatusRunning(id) ==
    /\ pc[id] = "status_running"
    /\ updateWorkflowStatus(id, StatusArg(pc[id]), EndTimeArg(pc[id]))
    /\ pc' = [pc EXCEPT ![id] = "begin"]
    /\ cur' = [cur EXCEPT ![id] = 0]
    /\ UNCHANGED <<now, apiResponse, workflow_steps, sseClients, closed, sub, reqVars, retryCount,
                   caught, lastUpdates, approval, faults>>

\* await updateStep(instanceId, i, { status: 'running' | 'waiting', timestamp: Date.now() })
RunBeginStep(id) ==
    /\ pc[id] = "begin"
    /\ LET u == Updates({"status", "timestamp"},
                        IF cur[id] = GateStep THEN "waiting" ELSE "running",
                        now, JsUndefined, NullText, NULL)
       IN /\ updateStep(id, cur[id], u)
          /\ lastUpdates' = [lastUpdates EXCEPT ![id] = u]
    /\ pc' = [pc EXCEPT ![id] = IF cur[id] = GateStep THEN "gate_status" ELSE "work"]
    /\ retryCount' = IF cur[id] = LastStep THEN [retryCount EXCEPT ![id] = 0]
                      ELSE retryCount
    /\ UNCHANGED <<now, apiResponse, workflow_instances, sseClients, closed, sub, reqVars, cur,
                   caught, approval, faults>>

\* await updateWorkflowStatus(instanceId, 'waiting', env)
RunGateStatus(id) ==
    /\ pc[id] = "gate_status"
    /\ updateWorkflowStatus(id, StatusArg(pc[id]), EndTimeArg(pc[id]))
    /\ pc' = [pc EXCEPT ![id] = "gate_bcast"]
    /\ UNCHANGED <<now, apiResponse, workflow_steps, sseClients, closed, sub, reqVars, cur, retryCount,
                   caught, lastUpdates, approval, faults>>

\* a broadcast that drops the controllers whose enqueue threw from the registry
RunGateBroadcastPruning(id) ==
    /\ pc[id] = "gate_bcast"
    /\ queues' = broadcastUpdate(queues, id,
                     Event("waiting", getWorkflowInstance(id), NullText, NULL, NULL))
    /\ published' = Published(published, id,
                        Event("waiting", getWorkflowInstance(id), NullText, NULL, NULL))
    /\ sseClients' = [x \in DOMAIN sseClients |->
                         IF x = id THEN sseClients[x] \ closed ELSE sseClients[x]]
    /\ pc' = [pc EXCEPT ![id] = "work"]
    /\ UNCHANGED <<now, apiResponse, storeVars, closed, sub, reqVars, cur, retryCount,
                   caught, lastUpdates, approval, faults>>

\* await broadcastUpdate(instanceId, { type: 'waiting', instance: await getWorkflowInstance(...) })
RunGateBroadcast(id) ==
    /\ pc[id] = "gate_bcast"
    /\ queues' = broadcastUpdate(queues, id,
                     Event("waiting", getWorkflowInstance(id), NullText, NULL, NULL))
    /\ published' = Published(published, id,
                        Event("waiting", getWorkflowInstance(id), NullText, NULL, NULL))
    /\ pc' = [pc EXCEPT ![id] = "work"]
    /\ UNCHANGED <<now, apiResponse, storeVars, sseClients, closed, sub, reqVars, cur, retryCount,
                   caught, lastUpdates, approval, faults>>

\* step.do / step.sleep of steps 0, 1, 3, 4 returns; the unit of work of
\* step 3 returns resp.json(), one of the values in responses
WorkReturns(id, responses) ==
    /\ cur[id] \in {0, 1, 3, 4}
    /\ pc' = [pc EXCEPT ![id] = "end"]
    /\ IF cur[id] = 3
       THEN \E v \in responses : apiResponse' = [apiResponse EXCEPT ![id] = v]
       ELSE UNCHANGED apiResponse
    /\ UNCHANGED <<now, storeVars, regVars, reqVars, cur, retryCount, caught,
                   lastUpdates, approval, faults>>

\* the API answers with a JSON object
RunWork(id) ==
    /\ pc[id] = "work"
    /\ WorkReturns(id, ObjectResponses)

\* the API answers with any JSON value
RunWorkAnyJson(id) ==
    /\ pc[id] = "work"
    /\ WorkReturns(id, JsonValues)

\* step.do of steps 0, 1, 3 throws (the runner gave up on the unit of work)
RunWorkFails(id) ==
    /\ pc[id] = "work"
    /\ cur[id] \in {0, 1, 3}
    /\ Throw(id, "step failed")
    /\ UNCHANGED <<now, apiResponse, storeVars, regVars, reqVars, cur, retryCount,
                   lastUpdates, approval, faults>>

\* step.waitForEvent returns the approval event
RunApproved(id) ==
    /\ pc[id] = "work"
    /\ cur[id] = GateStep
    /\ approval[id]
    /\ approval' = [approval EXCEPT ![id] = FALSE]
    /\ pc' = [pc EXCEPT ![id] = "end"]
    /\ UNCHANGED <<now, apiResponse, storeVars, regVars, reqVars, cur, retryCount, caught,
                   lastUpdates, faults>>

\* step.waitForEvent throws after its timeout
RunApprovalTimeout(id) ==
    /\ pc[id] = "work"
    /\ cur[id] = GateStep
    /\ ~approval[id]
    /\ Throw(id, "timeout")
    /\ UNCHANGED <<now, apiResponse, storeVars, regVars, reqVars, cur, retryCount,
                   lastUpdates, approval, faults>>

\* the callback announcing an attempt only when it is a retry
RunAttemptSilentFirst(id) ==
    /\ pc[id] = "work"
    /\ cur[id] = LastStep
    /\ retryCount' = [retryCount EXCEPT ![id] = retryCount[id] + 1]
    /\ IF retryCount[id] = 0
       THEN UNCHANGED <<queues, published>>
       ELSE /\ queues' = broadcastUpdate(queues, id,
                     Event("retryAttempt", NullView, NullText, LastStep, retryCount[id] + 1))
            /\ published' = Published(published, id,
                     Event("retryAttempt", NullView, NullText, LastStep, retryCount[id] + 1))
    /\ \E ok \in BOOLEAN :
          IF ok THEN /\ pc' = [pc EXCEPT ![id] = "end"]
                     /\ UNCHANGED caught
          ELSE IF retryCount[id] + 1 <= maxRetries
               THEN UNCHANGED <<pc, caught>>
               ELSE Throw(id, "simulated")
    /\ UNCHANGED <<now, apiResponse, storeVars, sseClients, closed, sub, reqVars, cur,
                   lastUpdates, approval, faults>>

\* one attempt of the retrying callback of the last step
RunAttempt(id) ==
    /\ pc[id] = "work"
    /\ cur[id] = LastStep
    /\ retryCount' = [retryCount EXCEPT ![id] = retryCount[id] + 1]
    /\ queues' = broadcastUpdate(queues, id,
                     Event("retryAttempt", NullView, NullText, LastStep, retryCount[id] + 1))
    /\ published' = Published(published, id,
                        Event("retryAttempt", NullView, NullText, LastStep, retryCount[id] + 1))
    /\ \E ok \in BOOLEAN :
          IF ok THEN /\ pc' = [pc EXCEPT ![id] = "end"]
                     /\ UNCHANGED caught
          ELSE IF retryCount[id] + 1 <= maxRetries
               THEN UNCHANGED <<pc, caught>>
               ELSE Throw(id, "simulated")
    /\ UNCHANGED <<now, apiResponse, storeVars, sseClients, closed, sub, reqVars, cur,
                   lastUpdates, approval, faults>>

\* the end of a step that goes on when the row it reads is missing
RunEndStepLenient(id) ==
    /\ pc[id] = "end"
    /\ LET instance == getWorkflowInstance(id)
           u == Updates({"status", "output", "duration"}, "completed", NULL,
                        StepOutput(id, cur[id]), NullText,
                        IF HasStep(instance, cur[id])
                        THEN now - instance.steps[cur[id] + 1].timestamp ELSE NULL)
       IN /\ updateStep(id, cur[id], u)
          /\ lastUpdates' = [lastUpdates EXCEPT ![id] = u]
          /\ pc' = [pc EXCEPT ![id] =
                      IF cur[id] = GateStep THEN "gate_resume"
                      ELSE IF cur[id] = LastStep THEN "final_status"
                      ELSE "begin"]
          /\ cur' = [cur EXCEPT ![id] =
                      IF cur[id] \in {GateStep, LastStep} THEN cur[id]
                      ELSE cur[id] + 1]
          /\ UNCHANGED caught
    /\ UNCHANGED <<now, apiResponse, workflow_instances, sseClients, closed, sub, reqVars, retryCount,
                   approval, faults>>

\* await updateStep(instanceId, i, { status: 'completed', output,
\*   duration: Date.now() - (await getWorkflowInstance(...))!.steps[i].timestamp })
RunEndStep(id) ==
    /\ pc[id] = "end"
    /\ LET instance == getWorkflowInstance(id) IN
       IF ~HasStep(instance, cur[id])
       THEN /\ Throw(id, "TypeError")
            /\ UNCHANGED <<workflow_steps, queues, published, lastUpdates, cur>>
       ELSE LET u == Updates({"status", "output", "duration"}, "completed", NULL,
                             StepOutput(id, cur[id]), NullText,
                             now - instance.steps[cur[id] + 1].timestamp)
            IN /\ updateStep(id, cur[id], u)
               /\ lastUpdates' = [lastUpdates EXCEPT ![id] = u]
               /\ pc' = [pc EXCEPT ![id] =
                           IF cur[id] = GateStep THEN "gate_resume"
                           ELSE IF cur[id] = LastStep THEN "final_status"
                           ELSE "begin"]
               /\ cur' = [cur EXCEPT ![id] =
                           IF cur[id] \in {GateStep, LastStep} THEN cur[id]
                           ELSE cur[id] + 1]
               /\ UNCHANGED caught
    /\ UNCHANGED <<now, apiResponse, workflow_instances, sseClients, closed, sub, reqVars, retryCount,
                   approval, faults>>

\* await updateWorkflowStatus(instanceId, 'running', env) after the gate
RunGateResume(id) ==
    /\ pc[id] = "gate_resume"
    /\ updateWorkflowStatus(id, StatusArg(pc[id]), EndTimeArg(pc[id]))
    /\ pc' = [pc EXCEPT ![id] = "begin"]
    /\ cur' = [cur EXCEPT ![id] = GateStep + 1]
    /\ UNCHANGED <<now, apiResponse, workflow_steps, sseClients, closed, sub, reqVars, retryCount,
                   caught, lastUpdates, approval, faults>>

\* await updateWorkflowStatus(instanceId, 'completed', env, Date.now())
RunFinalStatus(id) ==
    /\ pc[id] = "final_status"
    /\ updateWorkflowStatus(id, StatusArg(pc[id]), EndTimeArg(pc[id]))
    /\ pc' = [pc EXCEPT ![id] = "final_bcast"]
    /\ UNCHANGED <<now, apiResponse, workflow_steps, sseClients, closed, sub, reqVars, cur, retryCount,
                   caught, lastUpdates, approval, faults>>

\* await broadcastUpdate(instanceId, { type: 'completed', instance: ... })
RunFinalBroadcast(id) ==
    /\ pc[id] = "final_bcast"
    /\ queues' = broadcastUpdate(queues, id,
                     Event("completed", getWorkflowInstance(id), NullText, NULL, NULL))
    /\ published' = Published(published, id,
                        Event("completed", getWorkflowInstance(id), NullText, NULL, NULL))
    /\ pc' = [pc EXCEPT ![id] = "done"]
    /\ UNCHANGED <<now, apiResponse, storeVars, sseClients, closed, sub, reqVars, cur, retryCount,
                   caught, lastUpdates, approval, faults>>

\* catch: await updateStep(instanceId, 5, { status: 'failed', error: error.message, duration })
RunCatchStep(id) ==
    /\ pc[id] = "catch_step"
    /\ LET instance == getWorkflowInstance(id) IN
       IF ~HasStep(instance, LastStep)
       THEN /\ pc' = [pc EXCEPT ![id] = "escaped"]
            /\ caught' = [caught EXCEPT ![id] = "TypeError"]
            /\ UNCHANGED <<workflow_steps, queues, published, lastUpdates>>
       ELSE LET u == Updates({"status", "error", "duration"}, "failed", NULL,
                             JsUndefined, caught[id],
                             now - instance.steps[LastStep + 1].timestamp)
            IN /\ updateStep(id, LastStep, u)
               /\ lastUpdates' = [lastUpdates EXCEPT ![id] = u]
               /\ pc' = [pc EXCEPT ![id] = "catch_status"]
               /\ UNCHANGED caught
    /\ UNCHANGED <<now, apiResponse, workflow_instances, sseClients, closed, sub, reqVars, cur,
                   retryCount, approval, faults>>

\* catch: await updateWorkflowStatus(instanceId, 'failed', env, Date.now())
RunCatchStatus(id) ==
    /\ pc[id] = "catch_status"
    /\ updateWorkflowStatus(id, StatusArg(pc[id]), EndTimeArg(pc[id]))
    /\ pc' = [pc EXCEPT ![id] = "catch_bcast"]
    /\ UNCHANGED <<now, apiResponse, workflow_steps, sseClients, closed, sub, reqVars, cur, retryCount,
                   caught, lastUpdates, approval, faults>>

\* catch: broadcast the 'failed' event, then throw error
RunCatchBroadcast(id) ==
    /\ pc[id] = "catch_bcast"
    /\ queues' = broadcastUpdate(queues, id,
                     Event("failed", getWorkflowInstance(id), caught[id], NULL, NULL))
    /\ published' = Published(published, id,
                        Event("failed", getWorkflowInstance(id), caught[id], NULL, NULL))
    /\ pc' = [pc EXCEPT ![id] = "rethrown"]
    /\ UNCHANGED <<now, apiResponse, storeVars, sseClients, closed, sub, reqVars, cur, retryCount,
                   caught, lastUpdates, approval, faults>>

(* ---------------- storage failures ---------------- *)
\* positions of run() whose next operation is a D1 call
StorageCallPcs ==
    {"status_running", "begin", "gate_status", "gate_bcast", "end", "gate_resume",
     "final_status", "final_bcast", "catch_step", "catch_status", "catch_bcast"}

\* positions of run() at an updateWorkflowStatus call
StatusCallPcs ==
    {"status_running", "gate_status", "gate_resume", "final_status", "catch_status"}

\* a failing D1 call whose operation still publishes the view it read
RunStorageFaultPublishing(id) ==
    /\ pc[id] \in StorageCallPcs
    /\ faults > 0
    /\ faults' = faults - 1
    /\ Throw(id, "D1_ERROR")
    /\ queues' = broadcastUpdate(queues, id,
                     Event("statusUpdate", getWorkflowInstance(id), NullText, NULL, NULL))
    /\ published' = Published(published, id,
                     Event("statusUpdate", getWorkflowInstance(id), NullText, NULL, NULL))
    /\ UNCHANGED <<now, apiResponse, storeVars, sseClients, closed, sub, reqVars, cur,
                   retryCount, lastUpdates, approval>>

\* the first D1 call of the operation at the current position throws:
\* nothing is written, nothing is published
RunStorageFault(id) ==
    /\ pc[id] \in StorageCallPcs
    /\ faults > 0
    /\ faults' = faults - 1
    /\ Throw(id, "D1_ERROR")
    /\ UNCHANGED <<now, apiResponse, storeVars, regVars, reqVars, cur, retryCount,
                   lastUpdates, approval>>

\* inside updateWorkflowStatus the UPDATE ran and the getWorkflowInstance after
\* it throws: the row is written, nothing is published
RunStatusReadFault(id) ==
    /\ pc[id] \in StatusCallPcs
    /\ faults > 0
    /\ faults' = faults - 1
    /\ workflow_instances' = StatusWritten(id, StatusArg(pc[id]), EndTimeArg(pc[id]))
    /\ Throw(id, "D1_ERROR")
    /\ UNCHANGED <<now, apiResponse, workflow_steps, regVars, reqVars, cur, retryCount,
                   lastUpdates, approval>>

\* the steps of run() and of the approval sent to it when every call succeeds
NextRun ==
    \/ \E id \in AllIds : PostContinue(id)
    \/ \E id \in AllIds : RunStatusRunning(id)
    \/ \E id \in AllIds : RunBeginStep(id)
    \/ \E id \in AllIds : RunGateStatus(id)
    \/ \E id \in AllIds : RunGateBroadcast(id)
    \/ \E id \in AllIds : RunWork(id)
    \/ \E id \in AllIds : RunWorkFails(id)
    \/ \E id \in AllIds : RunApproved(id)
    \/ \E id \in AllIds : RunApprovalTimeout(id)
    \/ \E id \in AllIds : RunAttempt(id)
    \/ \E id \in AllIds : RunEndStep(id)
    \/ \E id \in AllIds : RunGateResume(id)
    \/ \E id \in AllIds : RunFinalStatus(id)
    \/ \E id \in AllIds : RunFinalBroadcast(id)
    \/ \E id \in AllIds : RunCatchStep(id)
    \/ \E id \in AllIds : RunCatchStatus(id)
    \/ \E id \in AllIds : RunCatchBroadcast(id)

\* the steps of the request handlers and of the driver when every call succeeds
NextLive ==
    \/ \E id \in AllIds : PostCreate(id)
    \/ \E id \in AllIds : PostInsertInstance(id)
    \/ \E id \in AllIds : PostInsertStep(id)
    \/ \E id \in AllIds : PostRespond(id)
    \/ NextRun

Next ==
    \/ Tick
    \/ NextLive
    \/ \E id \in AllIds : RunStorageFault(id)
    \/ \E id \in AllIds : RunStatusReadFault(id)

Spec == Init /\ [][Next]_vars

\* the same steps when the API of step 3 may answer with any JSON value
NextOutputs ==
    \/ NextLive
    \/ \E id \in AllIds : RunWorkAnyJson(id)

\* the id create() hands out first
FirstId == "w1"

\* a database that already holds rows under FirstId, left by an earlier
\* deployment (the schema is created with IF NOT EXISTS, the tables outlive
\* the Worker)
InitStale ==
    /\ now = 0
    /\ workflow_instances = InsertInstanceRow(<< >>, FirstId)
    /\ workflow_steps = [k \in 1..NumSteps |-> NewStepRow(FirstId, k - 1)]
    /\ sseClients = << >>
    /\ queues = [c \in Controllers |-> << >>]
    /\ published = [id \in AllIds |-> << >>]
    /\ retry = [id \in AllIds |-> NoRetry]
    /\ closed = {}
    /\ created = {}
    /\ req = [id \in AllIds |-> IdleReq]
    /\ pc = [id \in AllIds |-> "idle"]
    /\ cur = [id \in AllIds |-> 0]
    /\ retryCount = [id \in AllIds |-> 0]
    /\ caught = [id \in AllIds |-> NullText]
    /\ lastUpdates = [id \in AllIds |-> NoUpdates]
    /\ approval = [id \in AllIds |-> FALSE]
    /\ apiResponse = [id \in AllIds |-> JsUndefined]
    /\ sub = [c \in Controllers |-> NoStream]
    /\ faults = 0

\* POST /api/workflow has answered for the first id and its run() has not
\* made its first call yet
InitCreated ==
    /\ now = 1
    /\ workflow_instances = InsertInstanceRow(<< >>, FirstId)
    /\ workflow_steps = [k \in 1..NumSteps |-> NewStepRow(FirstId, k - 1)]
    /\ sseClients = << >>
    /\ queues = [c \in Controllers |-> << >>]
    /\ published = [id \in AllIds |-> << >>]
    /\ retry = [id \in AllIds |-> NoRetry]
    /\ closed = {}
    /\ created = {FirstId}
    /\ req = [id \in AllIds |-> IF id = FirstId THEN [at |-> "done", i |-> NumSteps]
                                 ELSE IdleReq]
    /\ pc = [id \in AllIds |-> IF id = FirstId THEN "status_running" ELSE "idle"]
    /\ cur = [id \in AllIds |-> 0]
    /\ retryCount = [id \in AllIds |-> 0]
    /\ caught = [id \in AllIds |-> NullText]
    /\ lastUpdates = [id \in AllIds |-> NoUpdates]
    /\ approval = [id \in AllIds |-> FALSE]
    /\ apiResponse = [id \in AllIds |-> JsUndefined]
    /\ sub = [c \in Controllers |-> NoStream]
    /\ faults = 0

\* run() and a viewer that opens and cancels a stream
NextStream ==
    \/ NextRun
    \/ \E c \in Viewers, id \in AllIds : StreamStart(c, id)
    \/ \E c \in Viewers : StreamInitial(c)
    \/ \E c \in Viewers : StreamCancel(c)

\* driver and stream after the creation of an instance, every call succeeding
SpecStream == InitCreated /\ [][NextStream]_vars

\* run() up to the approval wait, with no approval sent before the wait times
\* out
NextRunToGate ==
    \/ \E id \in AllIds : RunStatusRunning(id)
    \/ \E id \in AllIds : RunBeginStep(id)
    \/ \E id \in AllIds : RunWork(id)
    \/ \E id \in AllIds : RunEndStep(id)
    \/ \E id \in AllIds : RunGateStatus(id)
    \/ \E id \in AllIds : RunGateBroadcast(id)
    \/ \E id \in AllIds : RunApprovalTimeout(id)

\* run() up to the approval wait and viewers that open and cancel streams
NextFanout ==
    \/ NextRunToGate
    \/ \E c \in Controllers, id \in AllIds : StreamStart(c, id)
    \/ \E c \in Controllers : StreamInitial(c)
    \/ \E c \in Controllers : StreamCancel(c)

\* driver and two viewers after the creation of an instance
SpecFanout == InitCreated /\ [][NextFanout]_vars

\* viewers that open and cancel streams, and the cancel callback run with any
\* argument
NextCancel ==
    \/ \E c \in Controllers, id \in AllIds : StreamStart(c, id)
    \/ \E c \in Controllers : StreamInitial(c)
    \/ \E c \in Controllers : StreamCancel(c)
    \/ \E id \in AllIds, x \in CancelArgs : CancelPath(id, x)

SpecCancel == InitCreated /\ [][NextCancel]_vars

\* the retry handler, the inserts and the runs, after the creation of the
\* first instance
NextRetry ==
    \/ \E id \in AllIds : PostRetry(id)
    \/ \E id \in AllIds : PostInsertInstance(id)
    \/ \E id \in AllIds : PostInsertStep(id)
    \/ \E id \in AllIds : PostRespond(id)
    \/ NextRunToGate

SpecRetry == InitCreated /\ [][NextRetry]_vars

\* the clock, the retry handler and its inserts, while the runner has not
\* scheduled a step of run() yet
NextList ==
    \/ Tick
    \/ \E id \in AllIds : PostRetry(id)
    \/ \E id \in AllIds : PostInsertInstance(id)
    \/ \E id \in AllIds : PostInsertStep(id)
    \/ \E id \in AllIds : PostRespond(id)

SpecList == InitCreated /\ [][NextList]_vars

\* the clock, run() up to the approval wait and a viewer that opens and
\* cancels a stream
NextEvents ==
    \/ Tick
    \/ NextRunToGate
    \/ \E c \in Viewers, id \in AllIds : StreamStart(c, id)
    \/ \E c \in Viewers : StreamInitial(c)
    \/ \E c \in Viewers : StreamCancel(c)

SpecEvents == InitCreated /\ [][NextEvents]_vars

\* after the creation of an instance, with storage calls that may throw
InitCreatedFaults ==
    /\ now = 1
    /\ workflow_instances = InsertInstanceRow(<< >>, FirstId)
    /\ workflow_steps = [k \in 1..NumSteps |-> NewStepRow(FirstId, k - 1)]
    /\ sseClients = << >>
    /\ queues = [c \in Controllers |-> << >>]
    /\ published = [id \in AllIds |-> << >>]
    /\ retry = [id \in AllIds |-> NoRetry]
    /\ closed = {}
    /\ created = {FirstId}
    /\ req = [id \in AllIds |-> IF id = FirstId THEN [at |-> "done", i |-> NumSteps]
                                 ELSE IdleReq]
    /\ pc = [id \in AllIds |-> IF id = FirstId THEN "status_running" ELSE "idle"]
    /\ cur = [id \in AllIds |-> 0]
    /\ retryCount = [id \in AllIds |-> 0]
    /\ caught = [id \in AllIds |-> NullText]
    /\ lastUpdates = [id \in AllIds |-> NoUpdates]
    /\ approval = [id \in AllIds |-> FALSE]
    /\ apiResponse = [id \in AllIds |-> JsUndefined]
    /\ sub = [c \in Controllers |-> NoStream]
    /\ faults = MaxFaults

\* run(), storage calls that throw, and a viewer that opens a stream and
\* stays connected
NextFaults ==
    \/ NextRun
    \/ \E id \in AllIds : RunStorageFault(id)
    \/ \E id \in AllIds : RunStatusReadFault(id)
    \/ \E c \in Viewers, id \in AllIds : StreamStart(c, id)
    \/ \E c \in Viewers : StreamInitial(c)

SpecFaults == InitCreatedFaults /\ [][NextFaults]_vars

\* handlers and driver over a database that is empty or already holds the
\* rows of the id create() hands out
InitCreate == InitNoFaults \/ InitStale

SpecCreate == InitCreate /\ [][NextLive]_vars

\* handlers and driver, every call succeeding, any JSON value from the API
SpecOutputs == InitNoFaults /\ [][NextOutputs]_vars

(* ---------------- fairness of the step runner ---------------- *)
\* the runner keeps executing run(): every enabled step of the driver and of
\* the creation handler is eventually taken; a unit of work eventually
\* returns or throws; the approval wait eventually returns or times out
RunnerStep ==
    \E id \in InstanceIds :
        \/ PostInsertInstance(id) \/ PostInsertStep(id) \/ PostRespond(id)
        \/ RunStatusRunning(id) \/ RunBeginStep(id) \/ RunGateStatus(id)
        \/ RunGateBroadcast(id) \/ RunEndStep(id) \/ RunGateResume(id)
        \/ RunFinalStatus(id) \/ RunFinalBroadcast(id) \/ RunCatchStep(id)
        \/ RunCatchStatus(id) \/ RunCatchBroadcast(id)
        \/ RunWork(id) \/ RunWorkFails(id)
        \/ RunApproved(id) \/ RunApprovalTimeout(id)
        \/ RunAttempt(id)

Fairness == WF_vars(RunnerStep)

\* the driver and the handlers with storage calls that always succeed and the
\* clock standing still, under a fair step runner
SpecLive == InitNoFaults /\ [][NextLive]_vars /\ Fairness

(* ---------------- properties ---------------- *)
Terminal(status) == status \in {"completed", "failed"}
Active(status) == status \in {"running", "waiting"}

\* the stored steps of an instance, in step_index order
StoredSteps(id) == getWorkflowInstance(id).steps

\* C1: terminal immutability - once the stored instance is completed or failed
\* with end_time set, no step of the program changes its status or end_time
C1_TerminalImmutable ==
    [][\A id \in DOMAIN workflow_instances :
          (Terminal(workflow_instances[id].status)
              /\ workflow_instances[id].end_time # NULL)
          => /\ workflow_instances'[id].status = workflow_instances[id].status
             /\ workflow_instances'[id].end_time = workflow_instances[id].end_time]_vars

\* C2: end_time is non-null iff the status is completed or failed, and once
\* end_time is non-null it is never cleared or set to a different value
C2_EndTimeIffTerminalAndStable ==
    [][/\ \A id \in DOMAIN workflow_instances :
             (workflow_instances[id].end_time # NULL)
                 <=> Terminal(workflow_instances[id].status)
       /\ \A id \in DOMAIN workflow_instances :
             workflow_instances[id].end_time # NULL
             => workflow_instances'[id].end_time = workflow_instances[id].end_time]_vars

\* C3: single active step - while the stored instance is not terminal, at most
\* one step is running or waiting, every step before an active step is
\* completed or failed, and every step after it is pending
C3_SingleActiveStep ==
    \A id \in DOMAIN workflow_instances :
        ~Terminal(workflow_instances[id].status)
        => LET st == StoredSteps(id) IN
           \A i \in 1..Len(st) :
               Active(st[i].status)
               => /\ \A j \in 1..Len(st) : Active(st[j].status) => j = i
                  /\ \A j \in 1..(i - 1) : Terminal(st[j].status)
                  /\ \A j \in (i + 1)..Len(st) : st[j].status = "pending"

\* C3 witness: the step after the gate is running behind three completed steps
C3_Witness ==
    /\ "w1" \in DOMAIN workflow_instances
    /\ workflow_instances["w1"].status = "running"
    /\ Len(StoredSteps("w1")) = NumSteps
    /\ StoredSteps("w1")[4].status = "running"
    /\ \A j \in 1..3 : StoredSteps("w1")[j].status = "completed"

\* run() ended by throwing to the step runner
Rejected(id) == pc[id] \in {"escaped", "rethrown"}

\* C4: when the unit of work of any step fails unrecoverably or the approval
\* wait is aborted, the step the driver was on is stored failed with the
\* error message and the instance is stored failed with end_time set, and the
\* failure is re-raised to the runner
C4_AnyStepFailureRecorded ==
    \A id \in DOMAIN workflow_instances :
        (Rejected(id) /\ caught[id] \in {"step failed", "timeout", "simulated"}
            /\ Len(StoredSteps(id)) = NumSteps)
        => /\ StoredSteps(id)[cur[id] + 1].status = "failed"
           /\ StoredSteps(id)[cur[id] + 1].error = caught[id]
           /\ workflow_instances[id].status = "failed"
           /\ workflow_instances[id].end_time # NULL

\* C5: every instance whose driver has started eventually has a terminal
\* stored status
C5_EventuallyTerminal ==
    \A id \in InstanceIds :
        (pc[id] # "idle")
        ~> (id \in DOMAIN workflow_instances
               /\ Terminal(workflow_instances[id].status))

\* C6: a step stored as running or waiting carries as its timestamp the
\* transition time the driver passed to updateStep
C6_TimestampIsTransitionTime ==
    \A id \in DOMAIN workflow_instances :
        \A i \in 1..Len(StoredSteps(id)) :
            Active(StoredSteps(id)[i].status)
            => StoredSteps(id)[i].timestamp = lastUpdates[id].timestamp

\* C7: the instance status is waiting iff some step of it is waiting
C7_WaitingIffStepWaiting ==
    \A id \in DOMAIN workflow_instances :
        (workflow_instances[id].status = "waiting")
        <=> (\E i \in 1..Len(StoredSteps(id)) : StoredSteps(id)[i].status = "waiting")

\* C8: the instance status is completed iff all of its steps are completed
C8_CompletedIffAllCompleted ==
    \A id \in DOMAIN workflow_instances :
        (workflow_instances[id].status = "completed")
        <=> (/\ Len(StoredSteps(id)) = NumSteps
             /\ \A i \in 1..NumSteps : StoredSteps(id)[i].status = "completed")

\* C9: the instance status is failed iff some step of it is failed
C9_FailedIffSomeStepFailed ==
    \A id \in DOMAIN workflow_instances :
        (workflow_instances[id].status = "failed")
        <=> (\E i \in 1..Len(StoredSteps(id)) : StoredSteps(id)[i].status = "failed")

\* C10: no stored step has both a non-null output and a non-null error
C10_OutputErrorExclusive ==
    \A k \in 1..Len(workflow_steps) :
        ~(workflow_steps[k].output # NullCol /\ workflow_steps[k].error # NullText)

\* C11: a stored step has a non-null output only if it is completed and a
\* non-null error only if it is failed
C11_OutputOnlyCompletedErrorOnlyFailed ==
    \A k \in 1..Len(workflow_steps) :
        /\ workflow_steps[k].output # NullCol => workflow_steps[k].status = "completed"
        /\ workflow_steps[k].error # NullText => workflow_steps[k].status = "failed"

\* the driver step is a call of updateStep that marks step cur[id] completed
EndStepApplied(id) ==
    /\ pc[id] = "end"
    /\ pc'[id] \in {"begin", "gate_resume", "final_status"}

\* C12: round trip - after updateStep wrote an output value for an existing
\* step, getWorkflowInstance returns that step with an output equal to it
C12_OutputRoundTrip ==
    [][\A id \in AllIds :
          EndStepApplied(id)
          => ReadInstance(workflow_instances', workflow_steps', id)
                 .steps[cur[id] + 1].output = lastUpdates'[id].output]_vars

\* the transitions the state machine of the instance status allows
AllowedTransitions ==
    {<<"queued", "running">>, <<"running", "waiting">>, <<"waiting", "running">>,
     <<"running", "completed">>, <<"running", "failed">>}

\* C13: the stored instance status only takes the transitions queued->running,
\* running->waiting, waiting->running, running->completed, running->failed
C13_StatusStateMachine ==
    [][\A id \in DOMAIN workflow_instances :
          workflow_instances'[id].status # workflow_instances[id].status
          => <<workflow_instances[id].status, workflow_instances'[id].status>>
                 \in AllowedTransitions]_vars

\* the views getAllWorkflowInstances returns
ListedViews ==
    {ReadInstance(workflow_instances, workflow_steps, id) : id \in DOMAIN workflow_instances}

\* C14: every view returned by getWorkflowInstance or getAllWorkflowInstances
\* has as many steps as the step template has entries
C14_ViewHasFullStepList ==
    /\ \A id \in AllIds :
          getWorkflowInstance(id) # NullView => Len(getWorkflowInstance(id).steps) = NumSteps
    /\ \A view \in ListedViews : Len(view.steps) = NumSteps

\* the step rows of id in the order getWorkflowInstance reads them
StepRows(id) ==
    OrderByStepIndex(SelectSeq(workflow_steps, LAMBDA r : r.workflow_id = id))

\* C15: step contiguity - the step_index values of the rows getWorkflowInstance
\* reads for an instance are 0, 1, ..., N-1 in this order, N the number of its
\* step rows
C15_StepContiguity ==
    \A id \in AllIds :
        \A k \in 1..Len(StepRows(id)) : StepRows(id)[k].step_index = k - 1

\* an instance with all its step rows, steps updated by the run
C15_Witness ==
    \E id \in DOMAIN workflow_instances :
        /\ Len(StepRows(id)) = NumSteps
        /\ workflow_instances[id].status = "completed"
        /\ StepRows(id)[NumSteps].status = "completed"

\* C16: creation stores one instance row with status queued and one step row
\* per template entry with status pending and step_index equal to its position;
\* the INSERT for an id the store already holds fails, the handler stops and
\* writes nothing: the existing rows stay as they are, no step row is added
C16_CreateStoresTemplateOnce ==
    [][\A id \in AllIds :
          /\ (req[id].at = "insert_instance" /\ req'[id].at = "insert_steps")
             => /\ id \notin DOMAIN workflow_instances
                /\ workflow_instances'[id].status = "queued"
                /\ DOMAIN workflow_instances' = DOMAIN workflow_instances \cup {id}
                /\ \A x \in DOMAIN workflow_instances :
                       workflow_instances'[x] = workflow_instances[x]
                /\ workflow_steps' = workflow_steps
          /\ (req[id].at = "insert_instance" /\ id \in DOMAIN workflow_instances
                  /\ req'[id] # req[id])
             => /\ req'[id].at = "error"
                /\ workflow_instances' = workflow_instances
                /\ workflow_steps' = workflow_steps
          /\ (req[id].at = "insert_steps" /\ req'[id].i = req[id].i + 1)
             => /\ Len(workflow_steps') = Len(workflow_steps) + 1
                /\ SubSeq(workflow_steps', 1, Len(workflow_steps)) = workflow_steps
                /\ workflow_steps'[Len(workflow_steps')].workflow_id = id
                /\ workflow_steps'[Len(workflow_steps')].status = "pending"
                /\ workflow_steps'[Len(workflow_steps')].step_index = req[id].i
                /\ workflow_steps'[Len(workflow_steps')].name = StepNames[req[id].i + 1]
                /\ workflow_instances' = workflow_instances
          /\ req'[id].at \in {"done", "error"}
             => /\ Len(StepRows(id)') = NumSteps
                /\ \A k \in 1..NumSteps : StepRows(id)'[k].step_index = k - 1]_vars

\* a creation has failed on an id the store already held
C16_Witness ==
    \E id \in AllIds :
        /\ req[id].at = "error"
        /\ id \in DOMAIN workflow_instances
        /\ Len(StepRows(id)) = NumSteps

\* the error outcomes of a driver call: the throw lands in the catch block of
\* the last step or leaves run()
Thrown(p) == p \in {"catch_step", "escaped"}

\* C17: updateStep called for an (instanceId, stepIndex) pair without a step
\* row ends in an error outcome and leaves the store unchanged
C17_UpdateStepMissingFails ==
    [][\A id \in AllIds :
          (/\ pc[id] = "begin"
           /\ ~HasStep(getWorkflowInstance(id), cur[id])
           /\ pc'[id] # pc[id])
          => /\ Thrown(pc'[id])
             /\ workflow_instances' = workflow_instances
             /\ workflow_steps' = workflow_steps]_vars

\* C18: updateWorkflowStatus called for an id without an instance row ends in
\* an error outcome, leaves the store unchanged and publishes no event
C18_UpdateStatusMissingFails ==
    [][\A id \in AllIds :
          (/\ pc[id] \in StatusCallPcs
           /\ id \notin DOMAIN workflow_instances
           /\ pc'[id] # pc[id])
          => /\ Thrown(pc'[id])
             /\ workflow_instances' = workflow_instances
             /\ workflow_steps' = workflow_steps
             /\ queues' = queues]_vars

\* the stepIndex argument of the updateStep call at the driver's position
StepArg(id) == IF pc[id] = "catch_step" THEN LastStep ELSE cur[id]

\* the driver step is a call of updateStep that found its step
UpdateStepApplied(id) ==
    /\ HasStep(getWorkflowInstance(id), StepArg(id))
    /\ \/ pc[id] = "begin" /\ pc'[id] \in {"work", "gate_status"}
       \/ EndStepApplied(id)
       \/ pc[id] = "catch_step" /\ pc'[id] = "catch_status"

\* the stored rows after the step differ from those before it at most in the
\* row of step StepArg(id) of id, which holds the merged step
OnlyMergedRowPersisted(id) ==
    /\ workflow_instances' = workflow_instances
    /\ Len(workflow_steps') = Len(workflow_steps)
    /\ \A k \in 1..Len(workflow_steps) :
          IF MatchesStep(workflow_steps[k], id, StepArg(id))
          THEN workflow_steps'[k] =
                  BoundStepRow(workflow_steps[k],
                      Merge(getWorkflowInstance(id).steps[StepArg(id) + 1],
                            lastUpdates'[id]))
          ELSE workflow_steps'[k] = workflow_steps[k]

\* C19 as stated: updateStep persists the merged step row, changes no other
\* row and publishes no event
C19_UpdateStepPublishesNothing ==
    [][\A id \in AllIds :
          UpdateStepApplied(id) => OnlyMergedRowPersisted(id) /\ queues' = queues]_vars

\* C19: updateStep persists the merged step row, changes no other step row and
\* no instance row, and publishes one stepUpdate event carrying the merged view
\* to every open controller registered for the instance, and to no other
C19_UpdateStepPersistsAndPublishes ==
    [][\A id \in AllIds :
          UpdateStepApplied(id)
          => /\ OnlyMergedRowPersisted(id)
             /\ \A c \in Controllers :
                   IF id \in DOMAIN sseClients /\ c \in sseClients[id] /\ c \notin closed
                   THEN /\ Len(queues'[c]) = Len(queues[c]) + 1
                        /\ SubSeq(queues'[c], 1, Len(queues[c])) = queues[c]
                        /\ queues'[c][Len(queues'[c])].type = "stepUpdate"
                        /\ queues'[c][Len(queues'[c])].instance.id = id
                        /\ queues'[c][Len(queues'[c])].instance.steps[StepArg(id) + 1] =
                              Merge(getWorkflowInstance(id).steps[StepArg(id) + 1],
                                    lastUpdates'[id])
                   ELSE queues'[c] = queues[c]]_vars

\* a viewer of an instance has received a stepUpdate event
C19_Witness ==
    \E c \in Controllers :
        \E k \in 1..Len(queues[c]) :
            /\ queues[c][k].type = "stepUpdate"
            /\ queues[c][k].instance.id = sub[c].id

\* the number of initial events controller c has received
InitialCount(c) ==
    Cardinality({k \in 1..Len(queues[c]) : queues[c][k].type = "initial"})

\* C20: every subscription whose read of the initial state has run has
\* received exactly one initial event, also when no instance row exists
C20_OneInitialPerSubscription ==
    \A c \in Controllers : sub[c].at = "open" => InitialCount(c) = 1

\* the messages controller c received through broadcastUpdate
Delivered(c) == SelectSeq(queues[c], LAMBDA e : e.type # "initial")

\* the last n elements of sequence p
LastN(p, n) == SubSeq(p, Len(p) - n + 1, Len(p))

\* C21: per-subscriber ordering - a subscriber that stays connected has
\* received the messages published for its instance since it joined, each
\* once, in the order of the broadcastUpdate calls
C21_DeliveredInPublicationOrder ==
    \A c \in Controllers :
        (sub[c].at # "none" /\ c \notin closed)
        => /\ Len(Delivered(c)) <= Len(published[sub[c].id])
           /\ Delivered(c) = LastN(published[sub[c].id], Len(Delivered(c)))

\* a connected subscriber has received events of the whole run, from a
\* stepUpdate to the completed event
C21_Witness ==
    \E c \in Controllers :
        /\ sub[c].at = "open" /\ c \notin closed
        /\ Len(Delivered(c)) >= 4
        /\ Delivered(c)[1].type \in {"statusUpdate", "stepUpdate"}
        /\ \E k \in 1..Len(Delivered(c)) : Delivered(c)[k].type = "retryAttempt"
        /\ Delivered(c)[Len(Delivered(c))].type = "completed"

\* the step is a call of broadcastUpdate(id, ...) that built a message
Publishes(id) == published'[id] # published[id]

\* C22: broadcast isolation - when broadcastUpdate is called for an instance
\* and the enqueue on one of its controllers throws, every other controller of
\* the instance still receives the event and the caller goes on normally
C22_BroadcastIsolation ==
    [][\A id \in AllIds :
          Publishes(id)
          => /\ ~Thrown(pc'[id])
             /\ pc'[id] # pc[id]
             /\ \A c \in sseClients[id] :
                   IF c \in closed
                   THEN queues'[c] = queues[c]
                   ELSE queues'[c] =
                           Append(queues[c], published'[id][Len(published'[id])])]_vars

\* subscribers A and B of one instance: A's stream is cancelled, B has
\* received an event that A has not
C22_Witness ==
    \E id \in DOMAIN sseClients :
        \E A \in sseClients[id], B \in sseClients[id] :
            /\ A \in closed /\ B \notin closed
            /\ Len(Delivered(B)) >= 1
            /\ Delivered(B)[Len(Delivered(B))] = published[id][Len(published[id])]
            /\ \A k \in 1..Len(queues[A]) :
                  queues[A][k] # published[id][Len(published[id])]

\* C23: idempotent unsubscribe - the cancel path run for a controller that is
\* not in the set of the instance (removed before, or never registered), or
\* for an instance id without a registry entry, leaves the registry as it is;
\* run for a registered controller it removes that controller and nothing
\* else, and running it again changes nothing more
C23_CancelIdempotent ==
    \A id \in AllIds, x \in CancelArgs :
        LET once == cancel(sseClients, id, x)
            twice == cancel(once, id, x)
        IN /\ twice = once
           /\ DOMAIN once = DOMAIN sseClients
           /\ \A i \in DOMAIN sseClients :
                 once[i] = IF i = id THEN sseClients[i] \ {x} ELSE sseClients[i]
           /\ (id \notin DOMAIN sseClients \/ x \notin sseClients[id])
              => once = sseClients

\* the cancel path has removed a controller that had subscribed, next to a
\* controller still registered, and an id has no registry entry
C23_Witness ==
    /\ \E c \in Controllers :
          /\ sub[c].at # "none"
          /\ c \notin sseClients[sub[c].id]
          /\ sseClients[sub[c].id] # {}
    /\ DOMAIN sseClients # AllIds

\* C24: in every reachable state the set registered for an instance is the set
\* of viewers that subscribed to it and have not disconnected
C24_RegistryIsLiveViewers ==
    \A id \in DOMAIN sseClients :
        sseClients[id] =
            {c \in Controllers : sub[c].at # "none" /\ sub[c].id = id /\ c \notin closed}

\* the retry handler for original id orig is at an insert for the new id
RetryInserts(orig, new) ==
    /\ retry[orig] = [at |-> "created", new |-> new]
    /\ req[new].at \in {"insert_instance", "insert_steps"}
    /\ req'[new] # req[new]

\* C25: retry of an id without a stored instance answers 404 and creates
\* nothing; else a new instance with another id is stored as queued with the
\* step template, every step pending, and the handler leaves the row and the
\* step rows of the original as they are
C25_RetryCreatesSibling ==
    [][\A orig \in AllIds :
          /\ (retry[orig].at = "idle" /\ retry'[orig].at = "404")
             => /\ getWorkflowInstance(orig) = NullView
                /\ UNCHANGED <<storeVars, created, req, pc>>
          /\ (retry[orig].at = "idle" /\ retry'[orig].at = "created")
             => /\ getWorkflowInstance(orig) # NullView
                /\ retry'[orig].new # orig
                /\ retry'[orig].new \notin DOMAIN workflow_instances
                /\ UNCHANGED storeVars
          /\ \A new \in AllIds :
                RetryInserts(orig, new)
                => /\ workflow_instances'[orig] = workflow_instances[orig]
                   /\ StepRows(orig)' = StepRows(orig)
                   /\ (req[new].at = "insert_instance")
                      => /\ workflow_instances'[new].status = "queued"
                         /\ workflow_instances'[new].start_time = now
                   /\ (req[new].at = "insert_steps" /\ req'[new].i = req[new].i + 1)
                      => /\ Len(StepRows(new)') = req[new].i + 1
                         /\ StepRows(new)'[req[new].i + 1].status = "pending"
                         /\ StepRows(new)'[req[new].i + 1].name = StepNames[req[new].i + 1]
                   /\ (req'[new].at = "done")
                      => /\ Len(StepRows(new)) = NumSteps
                         /\ UNCHANGED storeVars]_vars

\* a retry has stored its sibling instance with all its step rows
C25_Witness ==
    \E orig \in AllIds :
        /\ retry[orig].at = "created"
        /\ req[retry[orig].new].at = "done"
        /\ retry[orig].new \in DOMAIN workflow_instances
        /\ Len(StepRows(retry[orig].new)) = NumSteps
        /\ Len(StepRows(orig)) = NumSteps

\* run() of id is in step.waitForEvent
AtGate(id) == pc[id] = "work" /\ cur[id] = GateStep

\* C26: approval gate - while the driver waits for the approval the store
\* holds the gate step as waiting and the instance as waiting, and no step
\* after the gate has left pending before the approval was received
C26_GateStoredWaiting ==
    \A id \in AllIds :
        /\ AtGate(id)
           => /\ getWorkflowInstance(id).status = "waiting"
              /\ HasStep(getWorkflowInstance(id), GateStep)
              /\ StoredSteps(id)[GateStep + 1].status = "waiting"
        /\ (pc[id] # "idle" /\ cur[id] <= GateStep)
           => \A k \in 1..Len(StoredSteps(id)) :
                 k > GateStep + 1 => StoredSteps(id)[k].status = "pending"

\* the messages of the failures of a unit of work: a step.do that throws, the
\* approval wait that times out, the last step out of retries
WorkFailures == {"step failed", "timeout", "simulated"}

\* run() of id has ended and none of its units of work has failed
EndedWithoutWorkFailure(id) ==
    /\ pc[id] \in {"done", "escaped", "rethrown"}
    /\ caught[id] \notin WorkFailures

AttemptRuns(id) ==
    /\ pc[id] = "work"
    /\ cur[id] = LastStep
    /\ retryCount'[id] = retryCount[id] + 1

\* C28: every attempt of the retrying last step, the first included and
\* whatever its outcome, publishes a retryAttempt event with the step index
\* and the attempt number counted from 1, without instance payload, and
\* changes no stored row
C28_RetryAttemptPublished ==
    [][\A id \in AllIds :
          AttemptRuns(id)
          => /\ UNCHANGED storeVars
             /\ retryCount'[id] \in 1..(maxRetries + 1)
             /\ \A c \in Controllers :
                   IF id \in DOMAIN sseClients /\ c \in sseClients[id] /\ c \notin closed
                   THEN queues'[c] =
                           Append(queues[c],
                                  Event("retryAttempt", NullView, NullText, LastStep,
                                        retryCount'[id]))
                   ELSE queues'[c] = queues[c]]_vars

\* a viewer has seen the first attempt and a retry announced, in this order
C28_Witness ==
    \E c \in Controllers :
        \E k \in 1..Len(queues[c]) :
            /\ k < Len(queues[c])
            /\ queues[c][k].type = "retryAttempt" /\ queues[c][k].attempt = 1
            /\ queues[c][k + 1].type = "retryAttempt" /\ queues[c][k + 1].attempt = 2

\* C29: getAllWorkflowInstances returns every stored instance exactly once,
\* the most recently started first
C29_ListNewestFirst ==
    \A tie \in TieOrders :
        LET list == getAllWorkflowInstances(tie) IN
        /\ \A id \in DOMAIN workflow_instances :
              Cardinality({k \in 1..Len(list) : list[k].id = id}) = 1
        /\ \A k \in 1..Len(list) : list[k].id \in DOMAIN workflow_instances
        /\ \A k \in 1..(Len(list) - 1) : list[k].startTime >= list[k + 1].startTime

\* two instances are stored that started at different times
C29_Witness ==
    \E x \in DOMAIN workflow_instances, y \in DOMAIN workflow_instances :
        workflow_instances[x].start_time < workflow_instances[y].start_time

\* C30: once the driver has executed its first updateWorkflowStatus(running)
\* and updateStep(0, running), the instance created through POST /api/workflow
\* is stored as running with step 0 running, also when the driver made these
\* calls before the handler inserted the rows
C30_FirstWritesStored ==
    \A id \in AllIds :
        (pc[id] = "work" /\ cur[id] = 0 /\ req[id].at = "done")
        => /\ getWorkflowInstance(id).status = "running"
           /\ StoredSteps(id)[1].status = "running"

\* the message the step published for id
LastPublished(id) == published'[id][Len(published'[id])]

\* C31: the instance view carried by every stepUpdate and statusUpdate event
\* equals the view getWorkflowInstance returns from the store right after
\* the write the event reports
C31_EventViewEqualsStore ==
    [][\A id \in AllIds :
          (Publishes(id) /\ LastPublished(id).type \in {"stepUpdate", "statusUpdate"})
          => LastPublished(id).instance =
                 ReadInstance(workflow_instances', workflow_steps', id)]_vars

\* the step is a D1 call of the driver of id that throws before it wrote
WriteFails(id) ==
    /\ faults' = faults - 1
    /\ pc'[id] # pc[id]
    /\ UNCHANGED storeVars

\* C32: no silent partial update - when the storage write of updateStep or
\* updateWorkflowStatus fails, the call raises to the driver, no event is
\* published for the transition and the driver does not go on to the next
\* position of the sequence
C32_FailedWriteRaises ==
    [][\A id \in AllIds :
          WriteFails(id)
          => /\ Thrown(pc'[id])
             /\ caught'[id] = "D1_ERROR"
             /\ UNCHANGED <<queues, published, cur, lastUpdates>>]_vars

\* a storage call of the driver has thrown while a viewer of the instance was
\* connected and had received events before
C32_Witness ==
    \E id \in AllIds, c \in Controllers :
        /\ faults < MaxFaults
        /\ Thrown(pc[id]) /\ caught[id] = "D1_ERROR"
        /\ sub[c] = [at |-> "open", id |-> id]
        /\ Len(Delivered(c)) >= 1

\* the stored status of step i of id in the store (wi, ws), NullText when the
\* row is missing
StoredStatus(wi, ws, id, i) ==
    LET instance == ReadInstance(wi, ws, id)
    IN IF instance # NullView /\ i + 1 <= Len(instance.steps)
       THEN instance.steps[i + 1].status ELSE NullText

\* the driver of id is between the begin and the end of step i
Executing(id, i) ==
    /\ cur[id] = i
    /\ pc[id] \in {"gate_status", "gate_bcast", "work", "end"}

\* the step marks step i of id running or waiting in the store
MarksActive(id, i) ==
    /\ ~Active(StoredStatus(workflow_instances, workflow_steps, id, i))
    /\ Active(StoredStatus(workflow_instances', workflow_steps', id, i))

\* C33: the driver executes the steps in index order - step i+1 is marked
\* running or waiting only after step i has been stored as completed, and the
\* unit of work of a step is never run while its predecessor is not completed
C33_StepsInIndexOrder ==
    /\ [](\A id \in AllIds : \A i \in 1..LastStep :
              Executing(id, i)
              => StoredStatus(workflow_instances, workflow_steps, id, i - 1) = "completed")
    /\ [][\A id \in AllIds : \A i \in 1..LastStep :
              MarksActive(id, i)
              => StoredStatus(workflow_instances, workflow_steps, id, i - 1) = "completed"]_vars

\* the driver is in the unit of work of the last step, stored as running after
\* the five steps before it were stored as completed
C33_Witness ==
    \E id \in AllIds :
        /\ Executing(id, LastStep) /\ pc[id] = "work"
        /\ StoredStatus(workflow_instances, workflow_steps, id, LastStep) = "running"
        /\ \A i \in 0..(LastStep - 1) :
              StoredStatus(workflow_instances, workflow_steps, id, i) = "completed"

\* the message types run() publishes with a call of broadcastUpdate of its
\* own, outside updateStep and updateWorkflowStatus
DirectTypes == {"waiting", "retryAttempt", "completed", "failed"}

\* C34: broadcastUpdate never modifies the subscription registry - a subscriber
\* whose delivery fails stays registered, the failed delivery is not retried
\* (the queue of a cancelled stream never grows again), and a call of
\* broadcastUpdate changes no store row
C34_PublishLeavesRegistryAndStore ==
    [][/\ \A id \in AllIds :
             Publishes(id)
             => /\ sseClients' = sseClients
                /\ closed' = closed
                /\ \A c \in sseClients[id] \cap closed : queues'[c] = queues[c]
                /\ LastPublished(id).type \in DirectTypes => UNCHANGED storeVars
       /\ \A c \in closed : queues'[c] = queues[c]]_vars

\* a subscriber that received the first event published for its instance and
\* whose stream was cancelled is still registered after run() broadcast the
\* waiting event, which it did not receive
C34_Witness ==
    \E id \in DOMAIN sseClients :
        \E c \in sseClients[id] \cap closed :
            /\ Len(Delivered(c)) >= 1
            /\ Len(Delivered(c)) < Len(published[id])
            /\ Delivered(c) = SubSeq(published[id], 1, Len(Delivered(c)))
            /\ published[id][Len(published[id])].type = "waiting"

\* C35: per-instance fan-out - an event published with
\* broadcastUpdate(instanceId, ...) is delivered to every controller registered
\* for instanceId at that time and to no controller registered for another id
C35_FanoutPerInstance ==
    [][\A id \in AllIds :
          Publishes(id)
          => \A c \in Controllers :
                queues'[c] = IF c \in sseClients[id]
                             THEN Append(queues[c], LastPublished(id))
                             ELSE queues[c]]_vars

\* C36: for every subscriber the initial snapshot is the first event it
\* receives - no event published by the driver is delivered before it
C36_InitialFirst ==
    \A c \in Controllers :
        queues[c] # << >> => queues[c][1].type = "initial"

\* viewer c has opened a stream for id and has not left it, in the state with
\* streams s and cancelled controllers cl
Viewing(s, cl, c, id) ==
    /\ s[c].at \in {"reading", "open"}
    /\ s[c].id = id
    /\ c \notin cl

\* C37: under any interleaving of subscribe, unsubscribe and broadcast no
\* subscription is lost - every viewer that joined an instance and has not
\* left is in the registry entry of the instance, whoever joined or left
\* meanwhile, and a broadcast delivers to every viewer that is registered for
\* the instance before and after it
C37_NoLostSubscription ==
    [][\A id \in AllIds :
          /\ \A c \in Controllers :
                Viewing(sub', closed', c, id)
                => id \in DOMAIN sseClients' /\ c \in sseClients'[id]
          /\ Publishes(id)
             => \A c \in Controllers :
                   (Viewing(sub, closed, c, id) /\ Viewing(sub', closed', c, id))
                   => queues'[c] = Append(queues[c], LastPublished(id))]_vars

\* two viewers of one instance, the second joined after the first had received
\* an event, and both received the last event published for the instance
C37_Witness ==
    \E id \in DOMAIN sseClients :
        \E A \in sseClients[id], B \in sseClients[id] :
            /\ Viewing(sub, closed, A, id) /\ Viewing(sub, closed, B, id)
            /\ 1 <= Len(Delivered(B))
            /\ Len(Delivered(B)) < Len(Delivered(A))
            /\ Delivered(A)[Len(Delivered(A))] = published[id][Len(published[id])]
            /\ Delivered(B)[Len(Delivered(B))] = published[id][Len(published[id])]

====
